---- MODULE Spec2Model ----
(***************************************************************************)
(* Logger (run-log rotation, persistent error log) of the payroll test     *)
(* harness, as a state machine over a small filesystem.  Every call of     *)
(* the fs module is one step; every step that can throw either succeeds    *)
(* or throws, and a throw is routed to the try/catch that encloses it.     *)
(* The test configuration is a second state machine: the process           *)
(* environment and the .env files are written, then the module is loaded.  *)
(***************************************************************************)
EXTENDS Integers, Sequences, FiniteSets, TLC

\* ------------------------------------------------------------------ bounds
MaxRuns == 4        \* header writes attempted in one behaviour
MaxRunLines == 2    \* lines a run log may hold before appendToRun is no longer called
MaxErrLines == 2    \* lines the error log may hold before appendTo* is no longer called
MaxCalls == 1       \* calls of the logging methods in one behaviour
MaxSet == 4         \* entries set in the process environment and the .env files

\* --------------------------------------------------------------- constants
current == "test_run.log"
prev1 == "test_run.1.log"
prev2 == "test_run.2.log"
errorLog == "test_error.log"
\* a run-log name the logger never uses: the "next numbered file"
prev3 == "test_run.3.log"

RunSlots == {current, prev1, prev2}
RunLogNames == RunSlots \cup {prev3}
Names == RunLogNames \cup {errorLog}
Null == "null"

Procs == {1, 2}
Workers == {1}
Msgs == {"m1", "m2"}
RunMsgs == {"m1"}

\* A string is a sequence of tokens: " " is white space, a digit is a digit,
\* any other token is a piece of text without white space or leading digit.
Unset == [set |-> FALSE, val |-> <<>>]
Value(str) == [set |-> TRUE, val |-> str]

CfgNames ==
  {"TEST_ENV", "NODE_ENV", "UI_BASE_URL", "UI_USERNAME", "UI_PASSWORD",
   "PAYROLL_API_BASE_URL", "API_BASE_URL", "API_TIMEOUT", "DEFAULT_TIMEOUT"}

EnvSelectors == {"TEST_ENV", "NODE_ENV"}
Numbers == {"API_TIMEOUT", "DEFAULT_TIMEOUT"}

\* the environments that have a file src/config/.env.<ENV>
EnvFiles == {<<"ci">>}

NoEntries == [n \in CfgNames |-> Unset]

\* the value of parseInt that is not a number
NaN == -1

\* the configuration before test-config is loaded
NoConfig ==
  [ui |-> [baseUrl |-> <<>>, username |-> <<>>, password |-> <<>>],
   api |-> [baseUrl |-> <<>>, timeout |-> NaN],
   defaultTimeout |-> NaN]

VARIABLES
  dirExists,    \* the logging directory exists on disk
  files,        \* name -> [exists, lines]
  clock,        \* number of run headers composed so far (the timestamp)
  logDir,       \* per process: "" or the resolved directory
  runLogPath,   \* per process: Null, "" or a file name
  errorLogPath, \* per process: "" or errorLog
  pc,           \* per process: position in the code
  stack,        \* per process: return positions of the calls in progress
  forceNew,     \* per process: argument of startRun
  msg,          \* per process: argument of appendToRun / appendToErrorLog
  data,         \* per process: buffer of readFileSync
  op,           \* per process: the operation called last
  lazy,         \* per process: appendToRun found no active run path
  threw,        \* per process: an fs call threw during the current operation
  raised,       \* per process: an exception reached the caller of an operation
  okRuns,       \* startRun() calls completed without a throw, since the last throw
  streak,       \* the same, since the last throw or startRun(true)
  errOk,        \* messages appendToErrorLog has appended, in call order
  span,         \* "both": two appendToErrorLog appends had a run started in between
  instance,     \* per process: Logger.instance is set
  tally,        \* per process: calls and error-log lines of the current operation
  pre,          \* per process: the files as the rotation in progress found them
  faults,       \* fs calls may throw for reasons outside the program
  processEnv,   \* process.env: name -> [set, val]
  dotEnv,       \* entries of src/config/.env
  dotEnvFor,    \* entries of src/config/.env.<ENV>, by ENV
  loaded,       \* "no", "ok", or "error" when loading test-config threw
  missing,      \* the variable named by the error, or ""
  testConfig    \* the exported configuration

logVars == <<dirExists, files, clock, logDir, runLogPath, errorLogPath, pc, stack,
             forceNew, msg, data, op, lazy, threw, raised, okRuns, streak, errOk,
             span, instance, tally, pre, faults>>

cfgVars == <<processEnv, dotEnv, dotEnvFor, loaded, missing, testConfig>>

vars == <<logVars, cfgVars>>

procVars == <<logDir, runLogPath, errorLogPath>>
argVars == <<forceNew, msg, op, lazy>>

\* ------------------------------------------------------------- file values
Absent == [exists |-> FALSE, lines |-> <<>>]
File(ls) == [exists |-> TRUE, lines |-> ls]
HeaderLine(k) == [kind |-> "hdr", run |-> k, text |-> ""]
MsgLine(m) == [kind |-> "msg", run |-> 0, text |-> m]

Falsy(s) == s \in {Null, ""}
Min(a, b) == IF a < b THEN a ELSE b

\* fs.existsSync never throws
existsSync(n) == dirExists /\ files[n].exists

\* effects of the fs calls when they succeed
unlinkSync(fs, n) == [fs EXCEPT ![n] = Absent]
renameSync_HeaderOnly(fs, a, b) ==
  [fs EXCEPT ![b] = File(SubSeq(fs[a].lines, 1, 1)), ![a] = Absent]

renameSync(fs, a, b) == [fs EXCEPT ![b] = fs[a], ![a] = Absent]
writeFileSync_Append(fs, n, ls) == [fs EXCEPT ![n] = File(fs[n].lines \o ls)]
writeFileSync(fs, n, ls) == [fs EXCEPT ![n] = File(ls)]
appendFileSync_Overwrite(fs, n, l) == [fs EXCEPT ![n] = File(<<l>>)]
appendFileSync(fs, n, l) == [fs EXCEPT ![n] = File(Append(fs[n].lines, l))]

\* what the fs calls need in order not to throw
CanUnlink(n) == dirExists /\ files[n].exists
CanRename(a) == dirExists /\ files[a].exists
CanRead(n) == dirExists /\ files[n].exists
CanWrite == dirExists

\* ---------------------------------------------------------- control flow
\* where a throw of the call at position l is caught: a position, "return"
\* (caught, then the function returns) or "raise" (no enclosing try)
CatchOf_MkdirUncaught(l) ==
  CASE l \in {"ip_mkdir", "sr_init"} -> "raise"
    [] l \in {"sr_unl2", "sr_ren12"} -> "sr_rd1"
    [] l \in {"sr_rd1", "sr_wr2", "sr_unl1"} -> "sr_ex1b"
    [] l \in {"sr_unl1b", "sr_ren01"} -> "sr_rd0"
    [] l \in {"sr_rd0", "sr_wr1", "sr_unl0"} -> "sr_hdr"
    [] l = "sr_hdr" -> "sr_fallback"
    [] l = "gi_start" -> "return"
    [] l \in {"ar_check", "ar_write", "ae_check", "ae_write"} -> "return"
    [] OTHER -> "raise"

CatchOf_FallbackFailureAborts(l) ==
  CASE l = "ip_mkdir" -> "ip_join"
    [] l = "sr_init" -> "raise"
    [] l \in {"sr_unl2", "sr_ren12"} -> "sr_rd1"
    [] l \in {"sr_rd1", "sr_wr2", "sr_unl1"} -> "sr_fallback"
    [] l \in {"sr_unl1b", "sr_ren01"} -> "sr_rd0"
    [] l \in {"sr_rd0", "sr_wr1", "sr_unl0"} -> "sr_fallback"
    [] l = "sr_hdr" -> "sr_fallback"
    [] l = "gi_start" -> "return"
    [] l \in {"ar_check", "ar_write", "ae_check", "ae_write"} -> "return"
    [] OTHER -> "raise"

CatchOf_RenameFailureRedirects(l) ==
  CASE l = "ip_mkdir" -> "ip_join"
    [] l = "sr_init" -> "raise"
    [] l \in {"sr_unl2", "sr_ren12"} -> "sr_rd1"
    [] l \in {"sr_rd1", "sr_wr2", "sr_unl1"} -> "sr_ex1b"
    [] l \in {"sr_unl1b", "sr_ren01"} -> "sr_fallback"
    [] l \in {"sr_rd0", "sr_wr1", "sr_unl0"} -> "sr_hdr"
    [] l = "sr_hdr" -> "sr_fallback"
    [] l = "gi_start" -> "return"
    [] l \in {"ar_check", "ar_write", "ae_check", "ae_write"} -> "return"
    [] OTHER -> "raise"

CatchOf(l) ==
  CASE l = "ip_mkdir" -> "ip_join"
    [] l = "sr_init" -> "raise"
    [] l \in {"sr_unl2", "sr_ren12"} -> "sr_rd1"
    [] l \in {"sr_rd1", "sr_wr2", "sr_unl1"} -> "sr_ex1b"
    [] l \in {"sr_unl1b", "sr_ren01"} -> "sr_rd0"
    [] l \in {"sr_rd0", "sr_wr1", "sr_unl0"} -> "sr_hdr"
    [] l = "sr_hdr" -> "sr_fallback"
    [] l = "gi_start" -> "return"
    [] l \in {"ar_check", "ar_write", "ae_check", "ae_write"} -> "return"
    [] OTHER -> "raise"

\* the call whose return position is r
SiteOf(r) ==
  CASE r = "sr_begin" -> "sr_init"
    [] r = "ar_write" -> "ar_check"
    [] r = "ae_write" -> "ae_check"
    [] r = "gi_start" -> "gi_check"
    [] r = "gi_end" -> "gi_start"
    [] r = "lg_after" -> "lg_run"
    [] r = "lg_end" -> "lg_after"
    [] OTHER -> "idle"

ReturnPc(stk) == IF stk = <<>> THEN "idle" ELSE Head(stk)
ReturnStack(stk) == IF stk = <<>> THEN <<>> ELSE Tail(stk)

\* exception propagation: the throw at l with the calls stk in progress
RECURSIVE Route(_, _)
Route(l, stk) ==
  LET h == CatchOf(l) IN
  IF h = "raise"
  THEN IF stk = <<>>
       THEN [pc |-> "idle", stack |-> <<>>, raised |-> TRUE]
       ELSE Route(SiteOf(Head(stk)), Tail(stk))
  ELSE IF h = "return"
  THEN [pc |-> ReturnPc(stk), stack |-> ReturnStack(stk), raised |-> FALSE]
  ELSE [pc |-> h, stack |-> stk, raised |-> FALSE]

Goto(p, l) ==
  /\ pc' = [pc EXCEPT ![p] = l]
  /\ stack' = stack

Call(p, entry, ret) ==
  /\ pc' = [pc EXCEPT ![p] = entry]
  /\ stack' = [stack EXCEPT ![p] = <<ret>> \o @]

Return(p) ==
  /\ pc' = [pc EXCEPT ![p] = ReturnPc(stack[p])]
  /\ stack' = [stack EXCEPT ![p] = ReturnStack(@)]

Quiet == UNCHANGED <<threw, raised, okRuns, streak>>

Thrown(p, l) ==
  LET r == Route(l, stack[p]) IN
  /\ pc' = [pc EXCEPT ![p] = r.pc]
  /\ stack' = [stack EXCEPT ![p] = r.stack]
  /\ raised' = [raised EXCEPT ![p] = @ \/ r.raised]
  /\ threw' = [threw EXCEPT ![p] = TRUE]
  /\ okRuns' = 0
  /\ streak' = 0

\* one fs call at position l: it succeeds when it can, or it throws
FsStep(p, l, can, newfiles, okpc) ==
  /\ pc[p] = l
  /\ \/ /\ can
        /\ files' = newfiles
        /\ Goto(p, okpc)
        /\ Quiet
     \/ /\ faults \/ ~can
        /\ files' = files
        /\ Thrown(p, l)
  /\ UNCHANGED <<cfgVars, faults, pre, dirExists, clock, procVars, argVars,
                 errOk, span, instance, tally>>

\* no rotation in progress
NoSnapshot == [taken |-> FALSE, files |-> [n \in Names |-> Absent]]

\* the logging methods
Logging == {"info", "warn", "error", "debug", "step"}

\* appendToRun calls, appendToErrorLog calls and lines added to the error log
\* by the operation in progress; logging methods called so far
NoCalls == [run |-> 0, err |-> 0, adds |-> 0, logged |-> 0]

\* -------------------------------------------------------------------- Init
\* nothing on disk, no Logger created, nothing configured
Boot ==
  /\ dirExists = FALSE
  /\ files = [n \in Names |-> Absent]
  /\ clock = 0
  /\ logDir = [p \in Procs |-> ""]
  /\ runLogPath = [p \in Procs |-> Null]
  /\ errorLogPath = [p \in Procs |-> ""]
  /\ pc = [p \in Procs |-> "idle"]
  /\ stack = [p \in Procs |-> <<>>]
  /\ forceNew = [p \in Procs |-> FALSE]
  /\ msg = [p \in Procs |-> ""]
  /\ data = [p \in Procs |-> <<>>]
  /\ op = [p \in Procs |-> "new"]
  /\ lazy = [p \in Procs |-> FALSE]
  /\ threw = [p \in Procs |-> FALSE]
  /\ raised = [p \in Procs |-> FALSE]
  /\ okRuns = 0
  /\ streak = 0
  /\ errOk = <<>>
  /\ span = "none"
  /\ instance = [p \in Procs |-> FALSE]
  /\ tally = [p \in Procs |-> NoCalls]
  /\ pre = [p \in Procs |-> NoSnapshot]
  /\ processEnv = NoEntries
  /\ dotEnv = NoEntries
  /\ dotEnvFor = [e \in EnvFiles |-> NoEntries]
  /\ loaded = "no"
  /\ missing = ""
  /\ testConfig = NoConfig

\* any fs call may throw: permissions, a full disk, a file held open
Init == Boot /\ faults = TRUE

\* an fs call throws only when the files on disk make it throw
InitRace == Boot /\ faults = FALSE

\* a new process: the module is loaded again, the files stay on disk
Restart(p) ==
  /\ pc[p] = "idle"
  /\ op[p] # "new"
  /\ logDir' = [logDir EXCEPT ![p] = ""]
  /\ runLogPath' = [runLogPath EXCEPT ![p] = Null]
  /\ errorLogPath' = [errorLogPath EXCEPT ![p] = ""]
  /\ op' = [op EXCEPT ![p] = "new"]
  /\ forceNew' = [forceNew EXCEPT ![p] = FALSE]
  /\ msg' = [msg EXCEPT ![p] = ""]
  /\ lazy' = [lazy EXCEPT ![p] = FALSE]
  /\ threw' = [threw EXCEPT ![p] = FALSE]
  /\ instance' = [instance EXCEPT ![p] = FALSE]
  /\ tally' = [tally EXCEPT ![p] = [NoCalls EXCEPT !.logged = tally[p].logged]]
  /\ UNCHANGED <<cfgVars, faults, pre, dirExists, files, clock, pc, stack, data, raised, okRuns,
                 streak, errOk, span>>

\* ------------------------------------------------------- the calls made
RoomInErrorLog == Len(files[errorLog].lines) < MaxErrLines
RoomInRunLog == Len(files[current].lines) < MaxRunLines

Enter(p, name, fn, m) ==
  /\ pc[p] = "idle"
  /\ op' = [op EXCEPT ![p] = name]
  /\ forceNew' = [forceNew EXCEPT ![p] = fn]
  /\ msg' = [msg EXCEPT ![p] = m]
  /\ lazy' = [lazy EXCEPT ![p] = FALSE]
  /\ threw' = [threw EXCEPT ![p] = FALSE]
  /\ tally' = [tally EXCEPT ![p] =
                 [NoCalls EXCEPT !.logged =
                    tally[p].logged + (IF name \in Logging THEN 1 ELSE 0)]]
  /\ UNCHANGED <<cfgVars, faults, pre, dirExists, files, clock, procVars, data, raised, okRuns,
                 streak, errOk, span, stack>>

CallStartRun(p) ==
  /\ clock < MaxRuns
  /\ \E fn \in BOOLEAN : Enter(p, "startRun", fn, "")
  /\ pc' = [pc EXCEPT ![p] = "sr_init"]
  /\ instance' = instance

CallRotateRun(p) ==
  /\ clock < MaxRuns
  /\ Enter(p, "rotateRun", TRUE, "")
  /\ pc' = [pc EXCEPT ![p] = "sr_init"]
  /\ instance' = instance

CallAppendToRun(p) ==
  /\ RoomInRunLog
  /\ RoomInErrorLog
  /\ Falsy(runLogPath[p]) => clock < MaxRuns
  /\ \E m \in RunMsgs : Enter(p, "appendToRun", FALSE, m)
  /\ pc' = [pc EXCEPT ![p] = "ar_check"]
  /\ instance' = instance

CallAppendToErrorLog(p) ==
  /\ RoomInErrorLog
  /\ \E m \in Msgs : Enter(p, "appendToErrorLog", FALSE, m)
  /\ pc' = [pc EXCEPT ![p] = "ae_check"]
  /\ instance' = instance

\* ---------------------------------------------------------------- initPaths
IpCheck_ResolveAgain(p) ==
  /\ pc[p] = "ip_check"
  /\ logDir' = [logDir EXCEPT ![p] = "logging"]
  /\ Goto(p, "ip_exists")
  /\ Quiet
  /\ UNCHANGED <<cfgVars, faults, pre, dirExists, files, clock, runLogPath, errorLogPath, argVars,
                 data, errOk, span, instance, tally>>

IpCheck(p) ==
  /\ pc[p] = "ip_check"
  /\ IF logDir[p] = ""
     THEN /\ logDir' = [logDir EXCEPT ![p] = "logging"]
          /\ Goto(p, "ip_exists")
     ELSE /\ logDir' = logDir
          /\ Goto(p, "ip_join")
  /\ Quiet
  /\ UNCHANGED <<cfgVars, faults, pre, dirExists, files, clock, runLogPath, errorLogPath, argVars,
                 data, errOk, span, instance, tally>>

IpExists(p) ==
  /\ pc[p] = "ip_exists"
  /\ Goto(p, IF dirExists THEN "ip_join" ELSE "ip_mkdir")
  /\ Quiet
  /\ UNCHANGED <<cfgVars, faults, pre, dirExists, files, clock, procVars, argVars, data,
                 errOk, span, instance, tally>>

IpMkdir(p) ==
  /\ pc[p] = "ip_mkdir"
  /\ \/ /\ dirExists' = TRUE
        /\ Goto(p, "ip_join")
        /\ Quiet
     \/ /\ faults
        /\ dirExists' = dirExists
        /\ Thrown(p, "ip_mkdir")
  /\ UNCHANGED <<cfgVars, faults, pre, files, clock, procVars, argVars, data,
                 errOk, span, instance, tally>>

IpJoin(p) ==
  /\ pc[p] = "ip_join"
  /\ errorLogPath' = [errorLogPath EXCEPT ![p] = errorLog]
  /\ Return(p)
  /\ Quiet
  /\ UNCHANGED <<cfgVars, faults, pre, dirExists, files, clock, logDir, runLogPath, argVars, data,
                 errOk, span, instance, tally>>

\* ----------------------------------------------------------------- startRun
SrInit(p) ==
  /\ pc[p] = "sr_init"
  /\ Call(p, "ip_check", "sr_begin")
  /\ Quiet
  /\ UNCHANGED <<cfgVars, faults, pre, dirExists, files, clock, procVars, argVars, data,
                 errOk, span, instance, tally>>

ShouldRotate_IgnoreForceNew(p) == existsSync(current)

ShouldRotate(p) == existsSync(current) /\ ~forceNew[p]

\* a startRun that waits while another process is inside a call
SrBegin_Locked(p) ==
  /\ pc[p] = "sr_begin"
  /\ \A q \in Procs \ {p} : pc[q] = "idle"
  /\ Goto(p, IF ShouldRotate(p) THEN "sr_ex1" ELSE "sr_hdr")
  /\ pre' = [pre EXCEPT ![p] = IF ShouldRotate(p)
                               THEN [taken |-> TRUE, files |-> files]
                               ELSE NoSnapshot]
  /\ Quiet
  /\ UNCHANGED <<cfgVars, faults, dirExists, files, clock, procVars, argVars, data,
                 errOk, span, instance, tally>>

SrBegin(p) ==
  /\ pc[p] = "sr_begin"
  /\ Goto(p, IF ShouldRotate(p) THEN "sr_ex1" ELSE "sr_hdr")
  /\ pre' = [pre EXCEPT ![p] = IF ShouldRotate(p)
                               THEN [taken |-> TRUE, files |-> files]
                               ELSE NoSnapshot]
  /\ Quiet
  /\ UNCHANGED <<cfgVars, faults, dirExists, files, clock, procVars, argVars, data,
                 errOk, span, instance, tally>>

SrExistsPrev1_NoShift(p) ==
  /\ pc[p] = "sr_ex1"
  /\ Goto(p, "sr_ex1b")
  /\ Quiet
  /\ UNCHANGED <<cfgVars, faults, pre, dirExists, files, clock, procVars, argVars, data,
                 errOk, span, instance, tally>>

SrExistsPrev1_Unconditional(p) ==
  /\ pc[p] = "sr_ex1"
  /\ Goto(p, "sr_ex2")
  /\ Quiet
  /\ UNCHANGED <<cfgVars, faults, pre, dirExists, files, clock, procVars, argVars, data,
                 errOk, span, instance, tally>>

SrExistsPrev1(p) ==
  /\ pc[p] = "sr_ex1"
  /\ Goto(p, IF existsSync(prev1) THEN "sr_ex2" ELSE "sr_ex1b")
  /\ Quiet
  /\ UNCHANGED <<cfgVars, faults, pre, dirExists, files, clock, procVars, argVars, data,
                 errOk, span, instance, tally>>

SrExistsPrev2(p) ==
  /\ pc[p] = "sr_ex2"
  /\ Goto(p, IF existsSync(prev2) THEN "sr_unl2" ELSE "sr_ren12")
  /\ Quiet
  /\ UNCHANGED <<cfgVars, faults, pre, dirExists, files, clock, procVars, argVars, data,
                 errOk, span, instance, tally>>

SrUnlinkPrev2_Archive(p) ==
  /\ FsStep(p, "sr_unl2", CanRename(prev2), renameSync(files, prev2, prev3),
            "sr_ren12")
  /\ data' = data

SrUnlinkPrev2(p) ==
  /\ FsStep(p, "sr_unl2", CanUnlink(prev2), unlinkSync(files, prev2),
            "sr_ren12")
  /\ data' = data

SrRenamePrev1_KeepSource(p) ==
  /\ FsStep(p, "sr_ren12", CanRename(prev1),
            writeFileSync(files, prev2, files[prev1].lines), "sr_ex1b")
  /\ data' = data

SrRenamePrev1(p) ==
  /\ FsStep(p, "sr_ren12", CanRename(prev1), renameSync(files, prev1, prev2),
            "sr_ex1b")
  /\ data' = data

SrReadPrev1(p) ==
  /\ FsStep(p, "sr_rd1", CanRead(prev1), files, "sr_wr2")
  /\ data' = [data EXCEPT ![p] = IF pc'[p] = "sr_wr2"
                                 THEN files[prev1].lines ELSE <<>>]

SrWritePrev2(p) ==
  /\ FsStep(p, "sr_wr2", CanWrite, writeFileSync(files, prev2, data[p]),
            "sr_unl1")
  /\ data' = [data EXCEPT ![p] = <<>>]

SrUnlinkPrev1Copied(p) ==
  /\ FsStep(p, "sr_unl1", CanUnlink(prev1), unlinkSync(files, prev1),
            "sr_ex1b")
  /\ data' = data

SrRecheckPrev1(p) ==
  /\ pc[p] = "sr_ex1b"
  /\ Goto(p, IF existsSync(prev1) THEN "sr_unl1b" ELSE "sr_ren01")
  /\ Quiet
  /\ UNCHANGED <<cfgVars, faults, pre, dirExists, files, clock, procVars, argVars, data,
                 errOk, span, instance, tally>>

SrUnlinkPrev1(p) ==
  /\ FsStep(p, "sr_unl1b", CanUnlink(prev1), unlinkSync(files, prev1),
            "sr_ren01")
  /\ data' = data

SrRenameCurrent_ToPrev2(p) ==
  /\ FsStep(p, "sr_ren01", CanRename(current),
            renameSync(files, current, prev2), "sr_hdr")
  /\ data' = data

SrRenameCurrent(p) ==
  /\ FsStep(p, "sr_ren01", CanRename(current),
            renameSync(files, current, prev1), "sr_hdr")
  /\ data' = data

SrReadCurrent(p) ==
  /\ FsStep(p, "sr_rd0", CanRead(current), files, "sr_wr1")
  /\ data' = [data EXCEPT ![p] = IF pc'[p] = "sr_wr1"
                                 THEN files[current].lines ELSE <<>>]

SrWritePrev1_ToPrev2(p) ==
  /\ FsStep(p, "sr_wr1", CanWrite, writeFileSync(files, prev2, data[p]),
            "sr_unl0")
  /\ data' = [data EXCEPT ![p] = <<>>]

SrWritePrev1(p) ==
  /\ FsStep(p, "sr_wr1", CanWrite, writeFileSync(files, prev1, data[p]),
            "sr_unl0")
  /\ data' = [data EXCEPT ![p] = <<>>]

SrUnlinkCurrent(p) ==
  /\ FsStep(p, "sr_unl0", CanUnlink(current), unlinkSync(files, current),
            "sr_hdr")
  /\ data' = data

\* the header write; on success the active run path is the current file
SrHeader(p) ==
  /\ pc[p] = "sr_hdr"
  /\ clock' = clock + 1
  /\ \/ /\ CanWrite
        /\ files' = writeFileSync(files, current, <<HeaderLine(clock + 1)>>)
        /\ runLogPath' = [runLogPath EXCEPT ![p] = current]
        /\ Return(p)
        /\ okRuns' = IF threw[p] \/ forceNew[p] THEN okRuns
                     ELSE Min(okRuns + 1, Cardinality(RunSlots))
        /\ streak' = IF threw[p] \/ forceNew[p] THEN 0
                     ELSE Min(streak + 1, Cardinality(RunSlots))
        /\ span' = IF span = "first" THEN "run" ELSE span
        /\ UNCHANGED <<threw, raised>>
     \/ /\ faults \/ ~CanWrite
        /\ files' = files
        /\ runLogPath' = runLogPath
        /\ span' = span
        /\ Thrown(p, "sr_hdr")
  /\ pre' = [pre EXCEPT ![p] = NoSnapshot]
  /\ UNCHANGED <<cfgVars, faults, dirExists, logDir, errorLogPath, argVars, data, errOk,
                 instance, tally>>

SrFallback_ToNull(p) ==
  /\ pc[p] = "sr_fallback"
  /\ runLogPath' = [runLogPath EXCEPT ![p] = Null]
  /\ Return(p)
  /\ Quiet
  /\ UNCHANGED <<cfgVars, faults, pre, dirExists, files, clock, logDir, errorLogPath, argVars, data,
                 errOk, span, instance, tally>>

SrFallback_ToCurrent(p) ==
  /\ pc[p] = "sr_fallback"
  /\ runLogPath' = [runLogPath EXCEPT ![p] = current]
  /\ Return(p)
  /\ Quiet
  /\ UNCHANGED <<cfgVars, faults, pre, dirExists, files, clock, logDir, errorLogPath, argVars, data,
                 errOk, span, instance, tally>>

SrFallback(p) ==
  /\ pc[p] = "sr_fallback"
  /\ runLogPath' = [runLogPath EXCEPT ![p] = errorLogPath[p]]
  /\ Return(p)
  /\ Quiet
  /\ UNCHANGED <<cfgVars, faults, pre, dirExists, files, clock, logDir, errorLogPath, argVars, data,
                 errOk, span, instance, tally>>

\* -------------------------------------------------------------- appendToRun
ArCheck_NoLazyStart(p) ==
  /\ pc[p] = "ar_check"
  /\ lazy' = [lazy EXCEPT ![p] = Falsy(runLogPath[p])]
  /\ Goto(p, "ar_write")
  /\ Quiet
  /\ tally' = [tally EXCEPT ![p].run = @ + 1]
  /\ UNCHANGED <<cfgVars, faults, pre, dirExists, files, clock, procVars, forceNew, msg, op, data,
                 errOk, span, instance>>

ArCheck_AlwaysStart(p) ==
  /\ pc[p] = "ar_check"
  /\ lazy' = [lazy EXCEPT ![p] = Falsy(runLogPath[p])]
  /\ forceNew' = [forceNew EXCEPT ![p] = FALSE]
  /\ Call(p, "sr_init", "ar_write")
  /\ Quiet
  /\ tally' = [tally EXCEPT ![p].run = @ + 1]
  /\ UNCHANGED <<cfgVars, faults, pre, dirExists, files, clock, procVars, msg, op, data,
                 errOk, span, instance>>

ArCheck(p) ==
  /\ pc[p] = "ar_check"
  /\ IF Falsy(runLogPath[p])
     THEN /\ lazy' = [lazy EXCEPT ![p] = TRUE]
          /\ forceNew' = [forceNew EXCEPT ![p] = FALSE]
          /\ Call(p, "sr_init", "ar_write")
     ELSE /\ UNCHANGED <<lazy, forceNew>>
          /\ Goto(p, "ar_write")
  /\ Quiet
  /\ tally' = [tally EXCEPT ![p].run = @ + 1]
  /\ UNCHANGED <<cfgVars, faults, pre, dirExists, files, clock, procVars, msg, op, data,
                 errOk, span, instance>>

ArWrite_AlwaysErrorLog(p) ==
  /\ pc[p] = "ar_write"
  /\ IF Falsy(runLogPath[p])
     THEN /\ files' = files
          /\ tally' = tally
          /\ Return(p)
          /\ Quiet
     ELSE \/ /\ CanWrite
             /\ files' = appendFileSync(files, errorLog, MsgLine(msg[p]))
             /\ tally' = [tally EXCEPT ![p].adds = @ + 1]
             /\ Return(p)
             /\ Quiet
          \/ /\ faults \/ ~CanWrite
             /\ files' = files
             /\ tally' = tally
             /\ Thrown(p, "ar_write")
  /\ UNCHANGED <<cfgVars, faults, pre, dirExists, clock, procVars, argVars, data, errOk, span,
                 instance>>

ArWrite_ToCurrent(p) ==
  /\ pc[p] = "ar_write"
  /\ IF Falsy(runLogPath[p])
     THEN /\ files' = files
          /\ tally' = tally
          /\ Return(p)
          /\ Quiet
     ELSE \/ /\ CanWrite
             /\ files' = appendFileSync(files, current, MsgLine(msg[p]))
             /\ tally' = tally
             /\ Return(p)
             /\ Quiet
          \/ /\ faults \/ ~CanWrite
             /\ files' = files
             /\ tally' = tally
             /\ Thrown(p, "ar_write")
  /\ UNCHANGED <<cfgVars, faults, pre, dirExists, clock, procVars, argVars, data, errOk, span,
                 instance>>

ArWrite(p) ==
  /\ pc[p] = "ar_write"
  /\ IF Falsy(runLogPath[p])
     THEN /\ files' = files
          /\ tally' = tally
          /\ Return(p)
          /\ Quiet
     ELSE \/ /\ CanWrite
             /\ files' = appendFileSync(files, runLogPath[p], MsgLine(msg[p]))
             /\ tally' = [tally EXCEPT ![p].adds =
                            IF runLogPath[p] = errorLog THEN @ + 1 ELSE @]
             /\ Return(p)
             /\ Quiet
          \/ /\ faults \/ ~CanWrite
             /\ files' = files
             /\ tally' = tally
             /\ Thrown(p, "ar_write")
  /\ UNCHANGED <<cfgVars, faults, pre, dirExists, clock, procVars, argVars, data, errOk, span,
                 instance>>

\* --------------------------------------------------------- appendToErrorLog
AeCheck_StartsRun(p) ==
  /\ pc[p] = "ae_check"
  /\ IF errorLogPath[p] = ""
     THEN Call(p, "sr_init", "ae_write")
     ELSE Goto(p, "ae_write")
  /\ Quiet
  /\ tally' = [tally EXCEPT ![p].err = @ + 1]
  /\ UNCHANGED <<cfgVars, faults, pre, dirExists, files, clock, procVars, argVars, data, errOk, span,
                 instance>>

AeCheck(p) ==
  /\ pc[p] = "ae_check"
  /\ IF errorLogPath[p] = ""
     THEN Call(p, "ip_check", "ae_write")
     ELSE Goto(p, "ae_write")
  /\ Quiet
  /\ tally' = [tally EXCEPT ![p].err = @ + 1]
  /\ UNCHANGED <<cfgVars, faults, pre, dirExists, files, clock, procVars, argVars, data, errOk, span,
                 instance>>

AeWrite_ToRunLog(p) ==
  /\ pc[p] = "ae_write"
  /\ \/ /\ CanWrite
        /\ files' = appendFileSync(files, current, MsgLine(msg[p]))
        /\ errOk' = Append(errOk, msg[p])
        /\ span' = CASE span = "run" -> "both"
                      [] span = "none" -> "first"
                      [] OTHER -> span
        /\ tally' = [tally EXCEPT ![p].adds = @ + 1]
        /\ Return(p)
        /\ Quiet
     \/ /\ faults \/ ~CanWrite
        /\ files' = files
        /\ UNCHANGED <<errOk, span, tally>>
        /\ Thrown(p, "ae_write")
  /\ UNCHANGED <<cfgVars, faults, pre, dirExists, clock, procVars, argVars, data, instance>>

AeWrite(p) ==
  /\ pc[p] = "ae_write"
  /\ \/ /\ CanWrite
        /\ files' = appendFileSync(files, errorLogPath[p], MsgLine(msg[p]))
        /\ errOk' = Append(errOk, msg[p])
        /\ span' = CASE span = "run" -> "both"
                      [] span = "none" -> "first"
                      [] OTHER -> span
        /\ tally' = [tally EXCEPT ![p].adds = @ + 1]
        /\ Return(p)
        /\ Quiet
     \/ /\ faults \/ ~CanWrite
        /\ files' = files
        /\ UNCHANGED <<errOk, span, tally>>
        /\ Thrown(p, "ae_write")
  /\ UNCHANGED <<cfgVars, faults, pre, dirExists, clock, procVars, argVars, data, instance>>

\* -------------------------------------------------------------- getInstance
CallGetInstance(p) ==
  /\ ~instance[p] => clock < MaxRuns
  /\ Enter(p, "getInstance", FALSE, "")
  /\ pc' = [pc EXCEPT ![p] = "gi_check"]
  /\ instance' = instance

GiCheck_NewEveryTime(p) ==
  /\ pc[p] = "gi_check"
  /\ instance' = [instance EXCEPT ![p] = TRUE]
  /\ Call(p, "ip_check", "gi_start")
  /\ Quiet
  /\ UNCHANGED <<cfgVars, faults, pre, dirExists, files, clock, procVars, argVars, data, errOk, span,
                 tally>>

GiCheck(p) ==
  /\ pc[p] = "gi_check"
  /\ IF instance[p]
     THEN /\ instance' = instance
          /\ Return(p)
     ELSE /\ instance' = [instance EXCEPT ![p] = TRUE]
          /\ Call(p, "ip_check", "gi_start")
  /\ Quiet
  /\ UNCHANGED <<cfgVars, faults, pre, dirExists, files, clock, procVars, argVars, data, errOk, span,
                 tally>>

GiStart(p) ==
  /\ pc[p] = "gi_start"
  /\ forceNew' = [forceNew EXCEPT ![p] = FALSE]
  /\ Call(p, "sr_init", "gi_end")
  /\ Quiet
  /\ UNCHANGED <<cfgVars, faults, pre, dirExists, files, clock, procVars, msg, op, lazy, data, errOk,
                 span, instance, tally>>

GiEnd(p) ==
  /\ pc[p] = "gi_end"
  /\ Return(p)
  /\ Quiet
  /\ UNCHANGED <<cfgVars, faults, pre, dirExists, files, clock, procVars, argVars, data, errOk, span,
                 instance, tally>>

\* ------------------------------------------- info, warn, error, debug, step
\* the timestamp that opens the line is left out
formatMessage(level, message) == "[" \o level \o "] " \o message

CallFacade(p, name, level, prefix) ==
  /\ instance[p]
  /\ tally[p].logged < MaxCalls
  /\ Falsy(runLogPath[p]) => clock < MaxRuns
  /\ \E m \in RunMsgs : Enter(p, name, FALSE, formatMessage(level, prefix \o m))
  /\ pc' = [pc EXCEPT ![p] = "lg_run"]
  /\ instance' = instance

CallInfo(p) == CallFacade(p, "info", "INFO", "")

CallWarn(p) == CallFacade(p, "warn", "WARN", "")

CallError(p) == CallFacade(p, "error", "ERROR", "")

CallDebug(p) == CallFacade(p, "debug", "DEBUG", "")

CallStepLog(p) == CallFacade(p, "step", "INFO", "STEP: ")

LgRun(p) ==
  /\ pc[p] = "lg_run"
  /\ Call(p, "ar_check", "lg_after")
  /\ Quiet
  /\ UNCHANGED <<cfgVars, faults, pre, dirExists, files, clock, procVars, argVars, data, errOk, span,
                 instance, tally>>

LgAfter_ErrorLogFromWarn(p) ==
  /\ pc[p] = "lg_after"
  /\ IF op[p] \in {"error", "warn"}
     THEN Call(p, "ae_check", "lg_end")
     ELSE Return(p)
  /\ Quiet
  /\ UNCHANGED <<cfgVars, faults, pre, dirExists, files, clock, procVars, argVars, data, errOk, span,
                 instance, tally>>

LgAfter(p) ==
  /\ pc[p] = "lg_after"
  /\ IF op[p] = "error"
     THEN Call(p, "ae_check", "lg_end")
     ELSE Return(p)
  /\ Quiet
  /\ UNCHANGED <<cfgVars, faults, pre, dirExists, files, clock, procVars, argVars, data, errOk, span,
                 instance, tally>>

LgEnd(p) ==
  /\ pc[p] = "lg_end"
  /\ Return(p)
  /\ Quiet
  /\ UNCHANGED <<cfgVars, faults, pre, dirExists, files, clock, procVars, argVars, data, errOk, span,
                 instance, tally>>

\* ------------------------------------------------------------- test-config
\* what the process environment, .env and .env.ci may hold for a name
ProcessValues(name) ==
  CASE name \in EnvSelectors -> {<<>>, <<"CI">>, <<"local">>}
    [] name \in Numbers -> {<<>>, <<" ", "4", "0", " ">>, <<"5", "s">>, <<"a">>}
    [] OTHER -> {<<>>, <<" ">>, <<" ", "b", " ">>}

DotEnvValues(name) ==
  CASE name \in EnvSelectors -> {<<"CI">>}
    [] name \in Numbers -> {<<"6", "0">>}
    [] OTHER -> {<<>>, <<"c">>}

DotEnvForValues(name) ==
  CASE name \in EnvSelectors -> {<<"CI">>}
    [] name \in Numbers -> {<<"7", "0">>}
    [] OTHER -> {<<"e">>}

Entries(env) == Cardinality({n \in CfgNames : env[n].set})

EntriesSet ==
  Entries(processEnv) + Entries(dotEnv) + Entries(dotEnvFor[<<"ci">>])

IsSpace(tok) == tok = " "

Digits ==
  [t \in {"0", "1", "2", "3", "4", "5", "6", "7", "8", "9"} |->
     CASE t = "0" -> 0 [] t = "1" -> 1 [] t = "2" -> 2 [] t = "3" -> 3
       [] t = "4" -> 4 [] t = "5" -> 5 [] t = "6" -> 6 [] t = "7" -> 7
       [] t = "8" -> 8 [] t = "9" -> 9]

RECURSIVE TrimStart(_)
TrimStart(str) ==
  IF str # <<>> /\ IsSpace(Head(str)) THEN TrimStart(Tail(str)) ELSE str

RECURSIVE TrimEnd(_)
TrimEnd(str) ==
  IF str # <<>> /\ IsSpace(str[Len(str)])
  THEN TrimEnd(SubSeq(str, 1, Len(str) - 1))
  ELSE str

Trim(str) == TrimEnd(TrimStart(str))

toLowerCase(str) ==
  [i \in 1..Len(str) |-> IF str[i] = "CI" THEN "ci" ELSE str[i]]

\* parseInt(str, 10): the digits that open the string, or NaN without any
RECURSIVE ReadDigits(_, _)
ReadDigits(str, acc) ==
  IF str # <<>> /\ Head(str) \in DOMAIN Digits
  THEN ReadDigits(Tail(str), 10 * acc + Digits[Head(str)])
  ELSE acc

parseInt(str) ==
  LET t == TrimStart(str) IN
  IF t # <<>> /\ Head(t) \in DOMAIN Digits THEN ReadDigits(t, 0) ELSE NaN

\* a || b on strings that may be undefined
Truthy(v) == v.set /\ v.val # <<>>
OrElse(a, b) == IF Truthy(a) THEN a ELSE b

ENV(env) ==
  toLowerCase(OrElse(env["TEST_ENV"],
                     OrElse(env["NODE_ENV"], Value(<<"local">>))).val)

\* dotenv.config: an entry of the file is set only where process.env has none
DotenvConfig_Override(env, file) ==
  [n \in CfgNames |-> IF file[n].set THEN file[n] ELSE env[n]]

DotenvConfig(env, file) ==
  [n \in CfgNames |-> IF env[n].set THEN env[n] ELSE file[n]]

FileFor(e) == IF e \in EnvFiles THEN dotEnvFor[e] ELSE NoEntries

LoadedEnv ==
  LET first == DotenvConfig(processEnv, dotEnv) IN
  IF ENV(processEnv) # <<"local">>
  THEN DotenvConfig(first, FileFor(ENV(processEnv)))
  ELSE first

getEnv_Untrimmed(env, name, fallback) ==
  LET v == env[name] IN
  IF ~v.set THEN fallback
  ELSE IF Trim(v.val) = <<>> THEN fallback ELSE Value(v.val)

getEnv(env, name, fallback) ==
  LET v == env[name] IN
  IF ~v.set THEN fallback
  ELSE LET t == Trim(v.val) IN IF t = <<>> THEN fallback ELSE Value(t)

\* getRequired throws when getEnv has nothing to give
getRequired(env, name) ==
  LET v == getEnv(env, name, Unset) IN [threw |-> ~Truthy(v), v |-> v]

DefaultUsername == <<"tomsmith">>
DefaultPassword == <<"SuperSecretPassword!">>
DefaultTimeoutText == <<"2", "0", "0", "0", "0">>

\* the object literal of testConfig, its properties evaluated in order
TestConfigOf(env) ==
  LET ui == getRequired(env, "UI_BASE_URL")
      api == getRequired(env, "API_BASE_URL")
  IN
  IF ui.threw
  THEN [status |-> "error", missing |-> "UI_BASE_URL", config |-> NoConfig]
  ELSE IF api.threw
  THEN [status |-> "error", missing |-> "API_BASE_URL", config |-> NoConfig]
  ELSE
    [status |-> "ok",
     missing |-> "",
     config |->
       [ui |-> [baseUrl |-> ui.v.val,
                username |->
                  getEnv(env, "UI_USERNAME", Value(DefaultUsername)).val,
                password |->
                  getEnv(env, "UI_PASSWORD", Value(DefaultPassword)).val],
        api |-> [baseUrl |-> getEnv(env, "PAYROLL_API_BASE_URL", api.v).val,
                 timeout |->
                   parseInt(getEnv(env, "API_TIMEOUT",
                                   Value(DefaultTimeoutText)).val)],
        defaultTimeout |->
          parseInt(getEnv(env, "DEFAULT_TIMEOUT",
                          Value(DefaultTimeoutText)).val)]]

SetProcessEnv ==
  /\ loaded = "no"
  /\ EntriesSet < MaxSet
  /\ \E n \in CfgNames :
       /\ ~processEnv[n].set
       /\ \E str \in ProcessValues(n) :
            processEnv' = [processEnv EXCEPT ![n] = Value(str)]
  /\ UNCHANGED <<logVars, dotEnv, dotEnvFor, loaded, missing, testConfig>>

WriteDotEnv ==
  /\ loaded = "no"
  /\ EntriesSet < MaxSet
  /\ \E n \in CfgNames :
       /\ ~dotEnv[n].set
       /\ \E str \in DotEnvValues(n) :
            dotEnv' = [dotEnv EXCEPT ![n] = Value(str)]
  /\ UNCHANGED <<logVars, processEnv, dotEnvFor, loaded, missing, testConfig>>

WriteDotEnvFor ==
  /\ loaded = "no"
  /\ EntriesSet < MaxSet
  /\ \E e \in EnvFiles, n \in CfgNames :
       /\ ~dotEnvFor[e][n].set
       /\ \E str \in DotEnvForValues(n) :
            dotEnvFor' = [dotEnvFor EXCEPT ![e][n] = Value(str)]
  /\ UNCHANGED <<logVars, processEnv, dotEnv, loaded, missing, testConfig>>

\* import of src/config/test-config
LoadConfig ==
  /\ loaded = "no"
  /\ LET r == TestConfigOf(LoadedEnv) IN
       /\ processEnv' = LoadedEnv
       /\ loaded' = r.status
       /\ missing' = r.missing
       /\ testConfig' = r.config
  /\ UNCHANGED <<logVars, dotEnv, dotEnvFor>>

\* the defaults the README promises when nothing is configured
DocumentedDefaults ==
  [apiBaseUrl |-> <<"http://localhost:8080/tw-payroll-system/api">>,
   uiBaseUrl |-> <<"https://the-internet.herokuapp.com">>,
   timeout |-> 20000]

\* ------------------------------------------------------------ specification
Step(p) ==
  \/ Restart(p)
  \/ CallStartRun(p)
  \/ CallRotateRun(p)
  \/ CallAppendToRun(p)
  \/ CallAppendToErrorLog(p)
  \/ IpCheck(p)
  \/ IpExists(p)
  \/ IpMkdir(p)
  \/ IpJoin(p)
  \/ SrInit(p)
  \/ SrBegin(p)
  \/ SrExistsPrev1(p)
  \/ SrExistsPrev2(p)
  \/ SrUnlinkPrev2(p)
  \/ SrRenamePrev1(p)
  \/ SrReadPrev1(p)
  \/ SrWritePrev2(p)
  \/ SrUnlinkPrev1Copied(p)
  \/ SrRecheckPrev1(p)
  \/ SrUnlinkPrev1(p)
  \/ SrRenameCurrent(p)
  \/ SrReadCurrent(p)
  \/ SrWritePrev1(p)
  \/ SrUnlinkCurrent(p)
  \/ SrHeader(p)
  \/ SrFallback(p)
  \/ ArCheck(p)
  \/ ArWrite(p)
  \/ AeCheck(p)
  \/ AeWrite(p)

Next == \E p \in Workers : Step(p)

Spec == Init /\ [][Next]_vars

\* the Logger as the repository uses it: the exported singleton, created by
\* getInstance when the module is loaded, and its five logging methods
Internal(p) ==
  \/ IpCheck(p)
  \/ IpExists(p)
  \/ IpMkdir(p)
  \/ IpJoin(p)
  \/ SrInit(p)
  \/ SrBegin(p)
  \/ SrExistsPrev1(p)
  \/ SrExistsPrev2(p)
  \/ SrUnlinkPrev2(p)
  \/ SrRenamePrev1(p)
  \/ SrReadPrev1(p)
  \/ SrWritePrev2(p)
  \/ SrUnlinkPrev1Copied(p)
  \/ SrRecheckPrev1(p)
  \/ SrUnlinkPrev1(p)
  \/ SrRenameCurrent(p)
  \/ SrReadCurrent(p)
  \/ SrWritePrev1(p)
  \/ SrUnlinkCurrent(p)
  \/ SrHeader(p)
  \/ SrFallback(p)
  \/ ArCheck(p)
  \/ ArWrite(p)
  \/ AeCheck(p)
  \/ AeWrite(p)

FacadeStep(p) ==
  \/ Restart(p)
  \/ CallGetInstance(p)
  \/ GiCheck(p)
  \/ GiStart(p)
  \/ GiEnd(p)
  \/ CallInfo(p)
  \/ CallWarn(p)
  \/ CallError(p)
  \/ CallDebug(p)
  \/ CallStepLog(p)
  \/ LgRun(p)
  \/ LgAfter(p)
  \/ LgEnd(p)
  \/ Internal(p)

NextFacade == \E p \in Workers : FacadeStep(p)

SpecFacade == Init /\ [][NextFacade]_vars

\* the configuration: the environment is prepared, then the module is loaded
NextConfig ==
  \/ SetProcessEnv
  \/ WriteDotEnv
  \/ WriteDotEnvFor
  \/ LoadConfig

SpecConfig == Init /\ [][NextConfig]_vars

\* two test workers on one log directory, each starting runs, their fs calls
\* interleaved one by one.  Nothing outside the program makes a call fail; the
\* header write needs only the directory, so it never throws and its catch
\* is never entered.
RaceStep(p) ==
  \/ CallStartRun(p)
  \/ IpCheck(p)
  \/ IpExists(p)
  \/ IpMkdir(p)
  \/ IpJoin(p)
  \/ SrInit(p)
  \/ SrBegin(p)
  \/ SrExistsPrev1(p)
  \/ SrExistsPrev2(p)
  \/ SrUnlinkPrev2(p)
  \/ SrRenamePrev1(p)
  \/ SrReadPrev1(p)
  \/ SrWritePrev2(p)
  \/ SrUnlinkPrev1Copied(p)
  \/ SrRecheckPrev1(p)
  \/ SrUnlinkPrev1(p)
  \/ SrRenameCurrent(p)
  \/ SrReadCurrent(p)
  \/ SrWritePrev1(p)
  \/ SrUnlinkCurrent(p)
  \/ SrHeader(p)

NextRace == \E p \in Procs : RaceStep(p)

SpecRace == InitRace /\ [][NextRace]_vars

\* ------------------------------------------------------------------ claims
W == CHOOSE p \in Workers : TRUE

IsPrefix(s, t) == Len(s) <= Len(t) /\ SubSeq(t, 1, Len(s)) = s

RECURSIVE IsSubseq(_, _)
IsSubseq(s, t) ==
  IF s = <<>> THEN TRUE
  ELSE IF t = <<>> THEN FALSE
  ELSE IF Head(s) = Head(t) THEN IsSubseq(Tail(s), Tail(t))
  ELSE IsSubseq(s, Tail(t))

Texts(ls) == [i \in 1..Len(ls) |-> ls[i].text]

\* the run whose header opens file n, 0 when there is none
HeaderOf(n) ==
  IF existsSync(n) /\ files[n].lines # <<>> /\ files[n].lines[1].kind = "hdr"
  THEN files[n].lines[1].run
  ELSE 0

InStartRun(p) == op[p] \in {"startRun", "rotateRun"} /\ pc[p] # "idle"

\* C1: in every reachable state, whatever fs call failed, the run-log files
\* that exist are among test_run.log, test_run.1.log and test_run.2.log, so
\* there are at most three of them.
C1_AtMostThreeRunLogs ==
  /\ \A n \in RunLogNames : files[n].exists => n \in {current, prev1, prev2}
  /\ Cardinality({n \in RunLogNames : files[n].exists}) <= 3

C1_Witness ==
  /\ \A n \in {current, prev1, prev2} : files[n].exists
  /\ threw[W]
  /\ pc[W] = "idle"

\* C2: once three startRun() calls have completed with no fs call failing,
\* between calls exactly the three run-log files exist.
C2_ThreeFilesAfterThreeRuns ==
  (pc[W] = "idle" /\ okRuns >= 3) =>
    {n \in RunLogNames : files[n].exists} = {current, prev1, prev2}

C2_Witness ==
  /\ pc[W] = "idle"
  /\ okRuns >= 3
  /\ op[W] = "startRun"
  /\ clock = MaxRuns

\* C3: after k successive startRun() calls with no fs call failing (k >= 3),
\* test_run.log opens with the header of the newest run, test_run.1.log with
\* the one before it and test_run.2.log with the one before that.
C3_HeadersShiftBySlot ==
  pc[W] = "idle" =>
    /\ streak >= 1 => HeaderOf(current) = clock
    /\ streak >= 2 => HeaderOf(prev1) = clock - 1
    /\ streak >= 3 => HeaderOf(prev2) = clock - 2

C3_Witness ==
  /\ pc[W] = "idle"
  /\ streak >= 3
  /\ HeaderOf(current) = clock
  /\ HeaderOf(prev2) = clock - 2
  /\ clock > 3

\* C4: no step of startRun(true) or rotateRun() changes any file other than
\* test_run.log; test_run.1.log and test_run.2.log keep existence and content.
C4_ForceNewNeverRotates ==
  [][\A p \in Workers :
       (InStartRun(p) /\ forceNew[p]) =>
         \A n \in Names \ {current} : files'[n] = files[n]]_vars

C4_Witness ==
  /\ pc[W] = "idle"
  /\ op[W] = "rotateRun"
  /\ ~threw[W]
  /\ files[current] = File(<<HeaderLine(clock)>>)
  /\ HeaderOf(prev1) > 0
  /\ HeaderOf(prev1) < clock - 1
  /\ HeaderOf(prev2) > 0

\* C5: no exception ever reaches the caller of startRun, rotateRun,
\* appendToRun or appendToErrorLog, whichever fs calls throw.
C5_NothingRaises == \A p \in Workers : ~raised[p]

C5_Witness ==
  /\ pc[W] = "idle"
  /\ op[W] = "appendToRun"
  /\ threw[W]
  /\ ~dirExists
  /\ runLogPath[W] = errorLog

\* C6: every step leaves test_error.log in place with its former content as
\* a prefix of the new content.
C6_ErrorLogAppendOnly ==
  [][/\ files[errorLog].exists => files'[errorLog].exists
     /\ IsPrefix(files[errorLog].lines, files'[errorLog].lines)]_vars

C6_Witness ==
  /\ Len(files[errorLog].lines) >= 2
  /\ files[prev2].exists
  /\ pc[W] \in {"sr_wr1", "sr_wr2"}

\* C7: the messages appendToErrorLog appended are in test_error.log in call
\* order, whatever runs were started in between, and test_error.log holds no
\* run header.
C7_ErrorsAccumulateInOrder ==
  /\ IsSubseq(errOk, Texts(files[errorLog].lines))
  /\ \A i \in 1..Len(files[errorLog].lines) :
       files[errorLog].lines[i].kind # "hdr"

C7_Witness ==
  /\ span = "both"
  /\ Len(errOk) = 2
  /\ errOk[1] # errOk[2]
  /\ Texts(files[errorLog].lines) = errOk

\* C8: appendToRun(m) with no active run path starts a run with
\* forceNew = false and then appends: when no fs call fails, test_run.log
\* is the new header followed by m.
C8_LazyStartThenAppend ==
  (pc[W] = "idle" /\ op[W] = "appendToRun" /\ lazy[W] /\ ~threw[W]) =>
    /\ ~forceNew[W]
    /\ runLogPath[W] = current
    /\ files[current] = File(<<HeaderLine(clock), MsgLine(msg[W])>>)

C8_Witness ==
  /\ pc[W] = "idle"
  /\ op[W] = "appendToRun"
  /\ lazy[W]
  /\ ~threw[W]
  /\ files[current].lines = <<HeaderLine(clock), MsgLine("m1")>>
  /\ HeaderOf(prev1) = clock - 1

C10_RedirectIsForLife ==
  [][\A p \in Workers :
       (runLogPath[p] = errorLog /\ op'[p] # "new") =>
         runLogPath'[p] = errorLog]_vars

\* C10 amended: within a process the active run path leaves the error-log
\* path only at the successful header write of a later explicit startRun or
\* rotateRun; appendToRun and appendToErrorLog never change it.
C10_RedirectUntilNextStartRun ==
  [][\A p \in Workers :
       (runLogPath[p] = errorLog /\ runLogPath'[p] # errorLog) =>
         \/ op'[p] = "new"
         \/ /\ InStartRun(p)
            /\ pc[p] = "sr_hdr"
            /\ runLogPath'[p] = current
            /\ files'[current] = File(<<HeaderLine(clock')>>)]_vars

C10_Witness ==
  /\ pc[W] = "idle"
  /\ op[W] = "appendToErrorLog"
  /\ runLogPath[W] = errorLog
  /\ Len(errOk) = 1
  /\ Len(files[errorLog].lines) = 2
  /\ files[current].exists

\* the five logging methods, with the level each one formats its line with
Levels ==
  [info |-> "INFO", warn |-> "WARN", error |-> "ERROR", debug |-> "DEBUG",
   step |-> "INFO"]

IsFacade(p) == op[p] \in Logging

\* the lines a logging method can format from the messages it is given
LinesOf(name) ==
  {formatMessage(Levels[name], (IF name = "step" THEN "STEP: " ELSE "") \o m) :
     m \in RunMsgs}

\* C11: info, warn, debug and step forward their formatted line to
\* appendToRun exactly once and never call appendToErrorLog; error forwards
\* its formatted line to appendToRun once and then to appendToErrorLog once.
C11_FacadeForwards ==
  \A p \in Workers :
    IsFacade(p) =>
      /\ ~raised[p]
      /\ msg[p] \in LinesOf(op[p])
      /\ tally[p].run <= 1
      /\ tally[p].err <= (IF op[p] = "error" THEN tally[p].run ELSE 0)
      /\ pc[p] = "idle" =>
           /\ tally[p].run = 1
           /\ tally[p].err = (IF op[p] = "error" THEN 1 ELSE 0)

C11_Witness ==
  /\ pc[W] = "idle"
  /\ op[W] = "error"
  /\ msg[W] = "[ERROR] m1"
  /\ tally[W].run = 1
  /\ tally[W].err = 1
  /\ runLogPath[W] = current
  /\ Len(files[current].lines) = 2
  /\ Len(files[errorLog].lines) = 1

\* C12 as stated: every line of test_error.log was produced by a call of
\* error(), and a call of error() adds at most one line to it.
C12_OnlyErrorLevel ==
  /\ \A i \in 1..Len(files[errorLog].lines) :
       files[errorLog].lines[i].text \in LinesOf("error")
  /\ \A p \in Workers : IsFacade(p) => tally[p].adds <= 1

\* C12 amended: a line is added to test_error.log only by appendToErrorLog
\* called from error(), or by appendToRun while the active run path is the
\* error-log path, and then for a call of any level; a logging call adds one
\* line for each of the two that applies, so error() adds up to two.
C12_ErrorLevelOrRedirected ==
  /\ [](\A p \in Workers :
         IsFacade(p) =>
           tally[p].adds <= (IF op[p] = "error" THEN tally[p].err ELSE 0)
                            + (IF runLogPath[p] = errorLog THEN tally[p].run
                               ELSE 0))
  /\ [][files'[errorLog] # files[errorLog] =>
         \E p \in Workers :
           /\ files'[errorLog] =
                File(Append(files[errorLog].lines, MsgLine(msg[p])))
           /\ \/ pc[p] = "ae_write" /\ op[p] = "error"
              \/ pc[p] = "ar_write" /\ runLogPath[p] = errorLog]_vars

C12_Witness ==
  /\ pc[W] = "idle"
  /\ op[W] = "error"
  /\ runLogPath[W] = errorLog
  /\ tally[W].adds = 2
  /\ Texts(files[errorLog].lines) = <<"[ERROR] m1", "[ERROR] m1">>

\* C13 as stated: the active run path is null or a path that can be written
\* (a path can be written when the logging directory exists).
C13_NullOrWritable ==
  \A p \in Workers : runLogPath[p] # Null => dirExists

\* C13 amended: the active run path is null, test_run.log or the error-log
\* path. It is test_run.log only when the logging directory exists. It is
\* null only until the first startRun of the process has returned, never
\* because a rotation failed. The error-log path is assigned unchecked.
C13_NullCurrentOrErrorLog ==
  \A p \in Workers :
    /\ runLogPath[p] \in {Null, current, errorLog}
    /\ runLogPath[p] = current => dirExists
    /\ runLogPath[p] = errorLog => errorLogPath[p] = errorLog
    /\ (pc[p] = "idle" /\ op[p] \in {"startRun", "rotateRun", "appendToRun"}) =>
         runLogPath[p] # Null

C13_Witness ==
  /\ pc[W] = "idle"
  /\ op[W] = "rotateRun"
  /\ threw[W]
  /\ runLogPath[W] = errorLog
  /\ ~dirExists

\* nothing is configured: no environment variable, no entry in any .env file
NothingConfigured ==
  /\ processEnv = NoEntries
  /\ dotEnv = NoEntries
  /\ \A e \in EnvFiles : dotEnvFor[e] = NoEntries

\* C14: with no environment variable set and no .env entry, loading the test
\* configuration succeeds and yields the documented defaults: both base
\* URLs and the two timeouts of 20000.
C14_DefaultsWithoutConfiguration ==
  (loaded # "no" /\ NothingConfigured) =>
    /\ loaded = "ok"
    /\ testConfig.api.baseUrl = DocumentedDefaults.apiBaseUrl
    /\ testConfig.ui.baseUrl = DocumentedDefaults.uiBaseUrl
    /\ testConfig.api.timeout = DocumentedDefaults.timeout
    /\ testConfig.defaultTimeout = DocumentedDefaults.timeout

C14_Witness ==
  /\ NothingConfigured
  /\ loaded = "error"
  /\ missing = "UI_BASE_URL"
  /\ testConfig = NoConfig

\* the sources of a name, in the order of the precedence chain: the process
\* environment, src/config/.env, and the .env file of the environment
Sources(name) ==
  <<processEnv[name], dotEnv[name],
    IF ENV(processEnv) # <<"local">>
    THEN FileFor(ENV(processEnv))[name]
    ELSE Unset>>

RECURSIVE FirstThat(_, _, _)
FirstThat(Ok(_), seq, default) ==
  IF seq = <<>> THEN default
  ELSE IF Ok(Head(seq)) THEN Trim(Head(seq).val)
  ELSE FirstThat(Ok, Tail(seq), default)

IsSet(v) == v.set
IsFilled(v) == v.set /\ Trim(v.val) # <<>>

\* the chain read with "set" as "present", and as "present and not blank"
ChainOfSet(name, default) == FirstThat(IsSet, Sources(name), default)
ChainOfFilled(name, default) == FirstThat(IsFilled, Sources(name), default)

Follows(v, name, default) ==
  v \in {ChainOfSet(name, default), ChainOfFilled(name, default)}

FollowsInt(v, name, default) ==
  v \in {parseInt(ChainOfSet(name, default)),
         parseInt(ChainOfFilled(name, default))}

LoadsOk == loaded = "no" /\ loaded' = "ok"

Resolved(name, default) ==
  LET v == ChainOfSet(name, <<>>) IN IF v = <<>> THEN default ELSE v

Stage2 ==
  {"sr_ex1b", "sr_unl1b", "sr_ren01", "sr_rd0", "sr_wr1", "sr_unl0", "sr_hdr",
   "sr_fallback"}

\* C16 as stated: when rotation executes and test_run.2.log exists, the
\* rotation goes on to delete it first, whether test_run.1.log exists or not.
C16_Prev2DeletedFirst ==
  [][\A p \in Workers :
       (pc[p] = "sr_ex1" /\ existsSync(prev2) /\ pc'[p] # "sr_ex1") =>
         pc'[p] = "sr_ex2"]_vars

\* C16 amended: the rotation looks at test_run.2.log only when
\* test_run.1.log exists, and then deletes it first when it exists; when
\* test_run.1.log does not exist the rotation goes straight to its second
\* stage, which never changes test_run.2.log.
C16_Prev2DeletedWhenPrev1Exists ==
  [][\A p \in Workers :
       /\ (pc[p] = "sr_ex1" /\ pc'[p] # "sr_ex1") =>
            pc'[p] = (IF existsSync(prev1) THEN "sr_ex2" ELSE "sr_ex1b")
       /\ (pc[p] = "sr_ex2" /\ pc'[p] # "sr_ex2") =>
            pc'[p] = (IF existsSync(prev2) THEN "sr_unl2" ELSE "sr_ren12")
       /\ (pc[p] = "sr_unl2" /\ pc'[p] = "sr_ren12") =>
            files' = [files EXCEPT ![prev2] = Absent]
       /\ pc[p] \in Stage2 => files'[prev2] = files[prev2]]_vars

\* the rotation has left an existing test_run.2.log alone
C16_Witness ==
  /\ pc[W] = "sr_ex1b"
  /\ ~threw[W]
  /\ ~forceNew[W]
  /\ existsSync(current)
  /\ ~existsSync(prev1)
  /\ existsSync(prev2)

\* C17 as stated: when the re-check of test_run.1.log is reached the slot is
\* already empty, so the delete that follows it never runs.
C17_RecheckFindsNothing ==
  \A p \in Workers : pc[p] = "sr_ex1b" => ~existsSync(prev1)

\* C17 amended: the re-check finds test_run.1.log only when a step of this
\* startRun call has thrown; without a failure the slot is empty and the
\* delete is not reached.
C17_RecheckFindsOnlyAfterFailure ==
  \A p \in Workers :
    /\ (pc[p] = "sr_ex1b" /\ existsSync(prev1)) => threw[p]
    /\ pc[p] = "sr_unl1b" => (threw[p] /\ existsSync(prev1))

\* the delete is about to remove a run log that test_run.2.log does not hold
C17_Witness ==
  /\ pc[W] = "sr_unl1b"
  /\ threw[W]
  /\ CanUnlink(prev1)
  /\ Len(files[prev1].lines) = 2
  /\ files[prev2] # files[prev1]
  /\ files[current] # files[prev1]

\* the fs calls of the two stages of the rotation: the move of
\* test_run.1.log to test_run.2.log, then of test_run.log to test_run.1.log
Stage1Calls == {"sr_unl2", "sr_ren12", "sr_rd1", "sr_wr2", "sr_unl1"}
Stage2Calls == {"sr_unl1b", "sr_ren01", "sr_rd0", "sr_wr1", "sr_unl0"}
Fallback1 == {"sr_rd1", "sr_wr2", "sr_unl1"}
Fallback2 == {"sr_rd0", "sr_wr1", "sr_unl0"}

\* C18: a failing rotation step, and a failing fallback after it, leave the
\* files as they are and only give up the move of their own stage: the first
\* stage never touches test_run.log, the second never touches
\* test_run.2.log; the rotation goes on with the next stage, the header
\* write is reached, nothing is raised and the active run path is unchanged.
C18_FailedStepSkipsItsSlotOnly ==
  [][\A p \in Workers :
       /\ pc[p] \in Stage1Calls =>
            /\ pc'[p] \in Stage1Calls \cup {"sr_ex1b"}
            /\ files'[current] = files[current]
            /\ files'[errorLog] = files[errorLog]
       /\ pc[p] \in Stage2Calls =>
            /\ pc'[p] \in Stage2Calls \cup {"sr_hdr"}
            /\ files'[prev2] = files[prev2]
            /\ files'[errorLog] = files[errorLog]
       /\ pc[p] \in Stage1Calls \cup Stage2Calls =>
            /\ runLogPath' = runLogPath
            /\ raised' = raised
            /\ (threw'[p] /\ ~threw[p]) => files' = files
       /\ (pc[p] \in Fallback1 /\ pc'[p] = "sr_ex1b" /\ files' = files) =>
            threw'[p]
       /\ (pc[p] \in Fallback2 /\ pc'[p] = "sr_hdr" /\ files' = files) =>
            threw'[p]]_vars

\* the move of test_run.1.log and its fallback have both failed (the file is
\* still there and test_run.2.log holds an older run); the rotation is at
\* its second stage and the active run path is still test_run.log
C18_Witness ==
  /\ pc[W] = "sr_ex1b"
  /\ op[W] = "startRun"
  /\ threw[W]
  /\ ~raised[W]
  /\ runLogPath[W] = current
  /\ HeaderOf(current) = 3
  /\ HeaderOf(prev1) = 2
  /\ HeaderOf(prev2) = 1

\* a startRun call has just returned to its caller: to the program, or to
\* the appendToRun that started the run
StartRunReturned(p) ==
  \/ pc[p] = "idle" /\ op[p] \in {"startRun", "rotateRun"}
  \/ pc[p] = "ar_write" /\ lazy[p]

RotatedWithoutFailure(p) ==
  pc[p] = "sr_hdr" /\ pre[p].taken /\ ~threw[p]

\* C20 as stated: a startRun() without a failing fs call that finds
\* test_run.log leaves its prior content in test_run.1.log, the prior content
\* of test_run.1.log, if there was one, in test_run.2.log, and nothing of the
\* prior content of test_run.2.log.
C20_ShiftDropsPrev2 ==
  \A p \in Workers :
    RotatedWithoutFailure(p) =>
      /\ files[prev1] = pre[p].files[current]
      /\ pre[p].files[prev1].exists => files[prev2] = pre[p].files[prev1]
      /\ ~pre[p].files[prev1].exists => ~existsSync(prev2)

\* C20 amended: the prior content of test_run.2.log is gone only when
\* test_run.1.log existed and took its place; otherwise test_run.2.log is
\* left as it was.  The header write that follows changes test_run.log only.
C20_ShiftByOneSlot ==
  /\ [](\A p \in Workers :
         RotatedWithoutFailure(p) =>
           /\ ~existsSync(current)
           /\ files[prev1] = pre[p].files[current]
           /\ files[prev2] = (IF pre[p].files[prev1].exists
                              THEN pre[p].files[prev1]
                              ELSE pre[p].files[prev2])
           /\ files[errorLog] = pre[p].files[errorLog])
  /\ [][\A p \in Workers :
         pc[p] = "sr_hdr" =>
           \A n \in Names \ {current} : files'[n] = files[n]]_vars

\* three runs shifted by one slot, appended lines included
C20_Witness ==
  /\ RotatedWithoutFailure(W)
  /\ Len(pre[W].files[current].lines) = 2
  /\ HeaderOf(prev1) = 3
  /\ HeaderOf(prev2) = 2
  /\ pre[W].files[prev2].exists
  /\ pre[W].files[prev2] # files[prev2]

\* pairs of run-log slots, the newer slot first
SlotPairs == {<<current, prev1>>, <<prev1, prev2>>, <<current, prev2>>}

\* two run-log files hold the same run
SameRunTwice ==
  \E s \in SlotPairs :
    existsSync(s[1]) /\ existsSync(s[2]) /\ HeaderOf(s[1]) = HeaderOf(s[2])

\* C21 as stated: between calls the run-log files that exist hold strictly
\* older runs from test_run.log to test_run.1.log to test_run.2.log, so no
\* two of them hold the same run.
C21_StrictlyOlderBySlot ==
  \A p \in Workers :
    pc[p] = "idle" =>
      \A s \in SlotPairs :
        (existsSync(s[1]) /\ existsSync(s[2])) =>
          HeaderOf(s[1]) > HeaderOf(s[2])

\* C21 amended: every run-log file opens with a run header and the runs never
\* get newer from test_run.log to test_run.1.log to test_run.2.log; two files
\* come to hold the same run only by the write of a copy fallback, which runs
\* after a rename has thrown.
C21_NeverNewerBySlot ==
  /\ [](/\ \A n \in RunSlots : existsSync(n) => HeaderOf(n) > 0
        /\ \A s \in SlotPairs :
             (existsSync(s[1]) /\ existsSync(s[2])) =>
               HeaderOf(s[1]) >= HeaderOf(s[2]))
  /\ [][(files' # files /\ ~SameRunTwice /\ SameRunTwice') =>
          \E p \in Workers : pc[p] \in {"sr_wr1", "sr_wr2"} /\ threw[p]]_vars

\* between calls test_run.1.log and test_run.2.log hold the same run
C21_Witness ==
  /\ pc[W] = "idle"
  /\ op[W] = "startRun"
  /\ existsSync(prev1)
  /\ files[prev1] = files[prev2]
  /\ HeaderOf(current) > HeaderOf(prev1)

\* the runs whose header some run-log file holds
RunsOnDisk == {HeaderOf(n) : n \in {m \in RunSlots : existsSync(m)}}

\* C22: nothing makes one process wait for the other.  With two processes on
\* one log directory a process that is between calls can start a run and a
\* process inside startRun can take its next fs step, wherever the other
\* process is; and any two processes with an active run path have the same
\* one, test_run.log.  (The state in which a run is lost is C22_Witness.)
C22_NoLock ==
  /\ \A p \in Procs :
       /\ (pc[p] = "idle" /\ clock < MaxRuns) => ENABLED CallStartRun(p)
       /\ pc[p] # "idle" => ENABLED RaceStep(p)
  /\ \A p, q \in Procs :
       (runLogPath[p] # Null /\ runLogPath[q] # Null) =>
         (runLogPath[p] = current /\ runLogPath[q] = current)

\* both processes have started a run (neither with forceNew), no fs call has
\* thrown, two headers were written and both processes have test_run.log as
\* their active file, but run 1 is in none of the three files
C22_Witness ==
  /\ \A p \in Procs :
       /\ pc[p] = "idle"
       /\ op[p] = "startRun"
       /\ ~forceNew[p]
       /\ ~threw[p]
       /\ runLogPath[p] = current
  /\ clock = 2
  /\ RunsOnDisk = {2}

\* the positions inside initPaths
InInitPaths == {"ip_check", "ip_exists", "ip_mkdir", "ip_join"}

\* C23: initPaths is idempotent.  Once it has returned, logDir and
\* errorLogPath are set, and a further call changes neither, touches no file
\* and does not throw.  The directory is looked for and created only in the
\* call that finds logDir empty, so at most once per process, and only when
\* existsSync found it absent.  A failed creation leaves the directory absent,
\* raises nothing and goes on to set errorLogPath.
C23_InitPathsIdempotent ==
  /\ [](\A p \in Workers :
         /\ (logDir[p] # "" /\ pc[p] \notin InInitPaths) =>
              errorLogPath[p] = errorLog
         /\ pc[p] = "ip_mkdir" => ~dirExists)
  /\ [][\A p \in Workers :
         /\ (pc[p] \in InInitPaths /\ logDir[p] # "" /\ pc[p] = "ip_check") =>
              pc'[p] = "ip_join"
         /\ (pc[p] \in InInitPaths /\ errorLogPath[p] # "") =>
              /\ pc[p] \in {"ip_check", "ip_join"}
              /\ errorLogPath'[p] = errorLogPath[p]
              /\ logDir'[p] = logDir[p]
              /\ threw'[p] = threw[p]
              /\ dirExists' = dirExists
         /\ pc[p] \in InInitPaths =>
              /\ files' = files
              /\ raised' = raised
              /\ runLogPath' = runLogPath
         /\ (pc'[p] = "ip_exists" /\ pc[p] # "ip_exists") =>
              (logDir[p] = "" /\ logDir'[p] # "")
         /\ (logDir[p] # "" /\ op'[p] # "new") => logDir'[p] = logDir[p]
         /\ pc[p] = "ip_mkdir" =>
              /\ pc'[p] \in {"ip_mkdir", "ip_join"}
              /\ dirExists' \/ threw'[p]]_vars

\* a second startRun has come back from initPaths: the creation failed in the
\* first call, the directory is still absent and was not tried again
C23_Witness ==
  /\ pc[W] = "sr_begin"
  /\ op[W] = "startRun"
  /\ clock >= 1
  /\ ~dirExists
  /\ ~threw[W]
  /\ logDir[W] # ""
  /\ errorLogPath[W] = errorLog

\* file n with the line of message m appended
Appended(n, m) ==
  [files EXCEPT ![n] = File(Append(@.lines, MsgLine(m)))]

\* C24: appendToRun calls startRun exactly when no active run path is set.
\* With an active run path set it enters no step of startRun, leaves
\* test_run.1.log, test_run.2.log and the active run path as they are, and
\* either appends the line m to the active file and changes nothing else, or
\* throws and changes nothing.
C24_AppendOnlyToActiveFile ==
  [][\A p \in Workers :
       /\ (pc[p] = "ar_check" /\ pc'[p] # "ar_check") =>
            /\ pc'[p] = "sr_init" <=> Falsy(runLogPath[p])
            /\ files' = files
       /\ (pc[p] \in {"ar_check", "ar_write"} /\ ~Falsy(runLogPath[p])) =>
            /\ pc'[p] \in {"ar_check", "ar_write", "idle"}
            /\ runLogPath' = runLogPath
            /\ clock' = clock
            /\ files'[prev1] = files[prev1]
            /\ files'[prev2] = files[prev2]
            /\ \/ files' = files
               \/ /\ pc[p] = "ar_write"
                  /\ files' = Appended(runLogPath[p], msg[p])
            /\ (pc[p] = "ar_write" /\ pc'[p] = "idle" /\ ~threw'[p])
                 => files' = Appended(runLogPath[p], msg[p])]_vars

\* an append to a run that was already active, with older runs on disk
C24_Witness ==
  /\ pc[W] = "idle"
  /\ op[W] = "appendToRun"
  /\ ~lazy[W]
  /\ ~threw[W]
  /\ runLogPath[W] = current
  /\ files[current].lines = <<HeaderLine(clock), MsgLine("m1")>>
  /\ existsSync(prev1)
  /\ existsSync(prev2)

\* process p is inside appendToErrorLog, initPaths included
InAppendToErrorLog(p) ==
  \/ pc[p] \in {"ae_check", "ae_write"}
  \/ pc[p] \in InInitPaths /\ op[p] = "appendToErrorLog"

\* C25: no step of appendToErrorLog(m) enters startRun or changes
\* test_run.log, test_run.1.log, test_run.2.log or the active run path; the
\* files change only at the write, by the line m appended to test_error.log;
\* a call that throws leaves every file as it was.
C25_ErrorLogIndependentOfRun ==
  [][\A p \in Workers :
       InAppendToErrorLog(p) =>
         /\ pc'[p] \in {"ae_check", "ae_write", "idle"} \cup InInitPaths
         /\ runLogPath' = runLogPath
         /\ clock' = clock
         /\ \A n \in RunLogNames : files'[n] = files[n]
         /\ \/ files' = files
            \/ /\ pc[p] = "ae_write"
               /\ ~threw'[p]
               /\ files' = Appended(errorLog, msg[p])
         /\ (pc[p] = "ae_write" /\ pc'[p] = "idle" /\ ~threw'[p]) =>
              files' = Appended(errorLog, msg[p])]_vars

\* an error line written while a run is active, the run logs as they were
C25_Witness ==
  /\ pc[W] = "idle"
  /\ op[W] = "appendToErrorLog"
  /\ ~threw[W]
  /\ runLogPath[W] = current
  /\ files[errorLog].lines = <<MsgLine("m2")>>
  /\ Len(files[current].lines) = 2
  /\ existsSync(prev1)

\* C26: the Logger is created once per process.  getInstance creates it only
\* when there is none and it stays until the process ends; a getInstance call
\* that finds it returns at once and changes nothing.  startRun is entered
\* only from the getInstance call that created the Logger, with
\* forceNew = false, so once per process; and whenever getInstance has
\* returned the active run path is test_run.log or the error-log path, never
\* null.
C26_SingletonStartsOneRun ==
  /\ [](\A p \in Workers :
         /\ (instance[p] /\ pc[p] = "idle") =>
              runLogPath[p] \in {current, errorLog}
         /\ ~raised[p])
  /\ [][\A p \in Workers :
         /\ (instance[p] /\ op'[p] # "new") => instance'[p]
         /\ (pc[p] = "gi_check" /\ pc'[p] # "gi_check") =>
              IF instance[p]
              THEN /\ pc'[p] = "idle"
                   /\ files' = files
                   /\ clock' = clock
                   /\ runLogPath' = runLogPath
              ELSE /\ pc'[p] = "ip_check"
                   /\ instance'[p]
         /\ (pc'[p] = "sr_init" /\ pc[p] # "sr_init") =>
              /\ pc[p] = "gi_start"
              /\ op[p] = "getInstance"
              /\ ~forceNew'[p]
         /\ (pc'[p] = "gi_start" /\ pc[p] # "gi_start") =>
              (pc[p] = "ip_join" /\ runLogPath[p] = Null)]_vars

\* a later getInstance call has returned: one run was started in all, and
\* test_run.log still holds its header and the line logged since
C26_Witness ==
  /\ pc[W] = "idle"
  /\ op[W] = "getInstance"
  /\ instance[W]
  /\ tally[W].logged = 1
  /\ clock = 1
  /\ runLogPath[W] = current
  /\ Len(files[current].lines) = 2
  /\ HeaderOf(current) = 1

\* C27: once test-config has been loaded with UI_BASE_URL and
\* PAYROLL_API_BASE_URL holding a value that is not blank, loading has
\* succeeded, whether API_BASE_URL is set or not, and api.baseUrl is the
\* trimmed PAYROLL_API_BASE_URL.
C27_PayrollUrlAloneSuffices ==
  (/\ loaded # "no"
   /\ IsFilled(processEnv["UI_BASE_URL"])
   /\ IsFilled(processEnv["PAYROLL_API_BASE_URL"])) =>
    /\ loaded = "ok"
    /\ testConfig.api.baseUrl = Trim(processEnv["PAYROLL_API_BASE_URL"].val)

\* PAYROLL_API_BASE_URL is set, API_BASE_URL is not, and loading has thrown
\* for API_BASE_URL
C27_Witness ==
  /\ loaded = "error"
  /\ missing = "API_BASE_URL"
  /\ IsFilled(processEnv["UI_BASE_URL"])
  /\ processEnv["PAYROLL_API_BASE_URL"] = Value(<<" ", "b", " ">>)
  /\ ~processEnv["API_BASE_URL"].set
  /\ testConfig = NoConfig

\* C28: the header write decides the active run path.  When it succeeds
\* startRun returns with test_run.log as the active path; when it throws, the
\* catch that follows sets the error-log path.  No other step of startRun
\* changes the active path or leads to that catch, so a startRun whose
\* failures are all in rotation steps returns with test_run.log active.
C28_HeaderWriteDecidesPath ==
  /\ [](\A p \in Workers :
         StartRunReturned(p) =>
           /\ runLogPath[p] \in {current, errorLog}
           /\ runLogPath[p] = current <=>
                files[current] = File(<<HeaderLine(clock)>>))
  /\ [][\A p \in Workers :
         /\ (pc[p] = "sr_hdr" /\ pc'[p] # "sr_hdr") =>
              IF files'[current] = File(<<HeaderLine(clock')>>)
              THEN /\ runLogPath'[p] = current
                   /\ pc'[p] = ReturnPc(stack[p])
              ELSE /\ runLogPath' = runLogPath
                   /\ files' = files
                   /\ pc'[p] = "sr_fallback"
         /\ (pc[p] = "sr_fallback" /\ pc'[p] # "sr_fallback") =>
              /\ runLogPath'[p] = errorLog
              /\ pc'[p] = ReturnPc(stack[p])
         /\ (pc'[p] = "sr_fallback" /\ pc[p] # "sr_fallback") =>
              pc[p] = "sr_hdr"
         /\ pc[p] \in Stage1Calls \cup Stage2Calls
                      \cup {"sr_init", "sr_begin", "sr_ex1", "sr_ex2", "sr_ex1b"}
              => runLogPath' = runLogPath]_vars

\* both moves of a rotation failed (test_run.1.log still holds run 1 and run 2
\* was overwritten), and the run started has test_run.log as its active path
C28_Witness ==
  /\ pc[W] = "idle"
  /\ op[W] = "startRun"
  /\ threw[W]
  /\ runLogPath[W] = current
  /\ clock = 3
  /\ HeaderOf(current) = 3
  /\ HeaderOf(prev1) = 1
  /\ ~existsSync(prev2)

\* C29: when a startRun() with forceNew = false that found test_run.log
\* writes the new header, test_run.1.log holds afterwards the complete
\* content test_run.log had when the call began, whichever rotation steps
\* failed.
C29_CurrentRunKept ==
  [][\A p \in Workers :
       (/\ pc[p] = "sr_hdr"
        /\ pre[p].taken
        /\ files'[current] = File(<<HeaderLine(clock')>>)) =>
         files'[prev1] = pre[p].files[current]]_vars

\* the rename of test_run.log and the copy after it have both thrown: the
\* header write comes next, test_run.log still holds run 2 with its appended
\* line and no other file holds it
C29_Witness ==
  /\ pc[W] = "sr_hdr"
  /\ pre[W].taken
  /\ ~forceNew[W]
  /\ threw[W]
  /\ CanWrite
  /\ files[current] = File(<<HeaderLine(2), MsgLine("m1")>>)
  /\ files[current] = pre[W].files[current]
  /\ ~existsSync(prev1)
  /\ HeaderOf(prev2) = 1

\* the positions of str that hold no white space
Inked(str) == {i \in 1..Len(str) : str[i] # " "}

\* a variable that is unset, empty or white space only
Blank(v) == ~v.set \/ Inked(v.val) = {}

\* str from its first to its last token that is not white space
Core(str) ==
  LET first == CHOOSE i \in Inked(str) : \A j \in Inked(str) : i <= j
      last == CHOOSE i \in Inked(str) : \A j \in Inked(str) : j <= i
  IN SubSeq(str, first, last)

\* the fallbacks getEnv is given: none, or a text
Fallbacks == {Unset, Value(DefaultTimeoutText)}

\* C30: for every variable of an environment that was loaded, getEnv returns
\* the fallback when the variable is unset, empty or white space only, and
\* its value without the white space around it otherwise; getRequired throws
\* exactly when getEnv without fallback has nothing, and returns that value
\* otherwise.  Loading throws exactly when one of the two required base URLs
\* is such a variable.
C30_GetEnvTrimsOrFallsBack ==
  loaded # "no" =>
  /\ \A n \in CfgNames :
       LET v == processEnv[n]
           r == getRequired(processEnv, n)
       IN
       IF Blank(v)
       THEN /\ \A fb \in Fallbacks : getEnv(processEnv, n, fb) = fb
            /\ r.threw
       ELSE /\ \A fb \in Fallbacks :
                 getEnv(processEnv, n, fb) = Value(Core(v.val))
            /\ ~r.threw
            /\ r.v = Value(Core(v.val))
  /\ loaded = "error" <=>
       (\/ Blank(processEnv["UI_BASE_URL"])
        \/ Blank(processEnv["API_BASE_URL"]))
  /\ loaded = "ok" =>
       /\ testConfig.ui.baseUrl = Core(processEnv["UI_BASE_URL"].val)
       /\ testConfig.ui.password =
            (IF Blank(processEnv["UI_PASSWORD"]) THEN DefaultPassword
             ELSE Core(processEnv["UI_PASSWORD"].val))

\* loaded with a padded UI_BASE_URL and an empty UI_PASSWORD
C30_Witness ==
  /\ loaded = "ok"
  /\ processEnv["UI_BASE_URL"] = Value(<<" ", "b", " ">>)
  /\ testConfig.ui.baseUrl = <<"b">>
  /\ processEnv["UI_PASSWORD"] = Value(<<>>)
  /\ testConfig.ui.password = DefaultPassword

====
